---- MODULE Spec2Model ----
(***************************************************************************)
(* IntentSignalFinder (src/core/intent_signal_finder.py): the run tracker  *)
(* state held by one instance (signals_to_track, user_input) and the       *)
(* find_intent_signals pipeline: planner -> search_pages -> analysis ->    *)
(* tracking of the successful queries.                                     *)
(*                                                                         *)
(* Python values are modelled as follows.                                  *)
(*   None / "" (falsy strings)   the empty string ""                       *)
(*   a plan (dict)               [present |-> TRUE, keys |-> K,            *)
(*                               search_queries |-> s]: K the top-level    *)
(*                               keys, s the value of 'search_queries'     *)
(*   signals_to_track = None     NoPlan                                    *)
(*   an element of search_queries  [shape, query]: shape "rec" is a dict   *)
(*                               with a 'query' key, "noquery" a dict      *)
(*                               without one, "str" a plain string         *)
(*   page text                   a TLA+ string                             *)
(***************************************************************************)
EXTENDS Integers, Sequences, FiniteSets, TLC

VARIABLES
    signals_to_track,   \* self.signals_to_track
    user_input,         \* self.user_input
    pc,                 \* position of the find_intent_signals call in flight
    arg,                \* the user_input argument of the call in flight
    signals_data,       \* local signals_data of the call in flight
    sp,                 \* activation record of search_pages
    pages,              \* local pages (result of search_pages)
    contacts,           \* local contacts (result of analyze_intent_signals)
    result,             \* outcome of the last call: returned value or raise
    ext,                \* external calls made by the call in flight
    hist,               \* history of the instance (ghost)
    pl,                 \* generate_intent_signals called on its own
    seen,               \* the answers the search API has given (ghost)
    an,                 \* analyze_intent_signals called on its own
    api,                \* the /find-intent-signals endpoint and the database
    cj,                 \* _clean_json_string called on its own
    cc,                 \* two calls of find_intent_signals on one instance
    dm,                 \* get_decision_makers called on its own
    rt                  \* the query and lead endpoints and their tables

vars == <<signals_to_track, user_input, pc, arg, signals_data, sp, pages,
          contacts, result, ext, hist, pl, seen, an, api, cj, cc, dm, rt>>

\* the instance and the call of find_intent_signals in flight
core == <<signals_to_track, user_input, pc, arg, signals_data, sp, pages,
          contacts, result, ext, hist>>

\* the components that a call of find_intent_signals leaves alone
\* the components of the functions and endpoints taken on their own
side == <<cj, cc, dm, rt>>

aux == <<pl, seen, an, api, side>>

-----------------------------------------------------------------------------
(* Bounds of the model *)

MaxQueries == 3
MaxResults == 2
MaxProfiles == 2
MaxCompanies == 2
MaxItems == 3
MaxRequests == 2
MaxText == 6
MaxContent == 4

(* Program constants *)

QueryCap == 2
NumPagesDefault == 2
ContentCap == 5000

Marker == "..."
TbsFresh == "qdr:m3"
TbsRepeat == "qdr:d"

Links == {"u1", "u2"}
UserInputs == {"i1", "i2"}

-----------------------------------------------------------------------------
(* Helpers *)

Min(a, b) == IF a < b THEN a ELSE b

Take(s, n) == SubSeq(s, 1, Min(Len(s), n))

SeqsUpTo(S, n) == UNION {[1..k -> S] : k \in 0..n}

Range(s) == {s[k] : k \in DOMAIN s}

RECURSIVE Rep(_, _)
Rep(c, n) ==
    IF n = 0 THEN ""
    ELSE IF n % 2 = 0 THEN LET h == Rep(c, n \div 2) IN h \o h
    ELSE c \o Rep(c, n - 1)

Truthy(s) == s /= ""

NoPlan == [present |-> FALSE, keys |-> {}, search_queries |-> <<>>]

Rec(t) == [shape |-> "rec", query |-> t]
Str(t) == [shape |-> "str", query |-> t]
NoQuery == [shape |-> "noquery", query |-> ""]

\* query['query'] evaluates without raising
HasQuery(query) == query.shape = "rec"

-----------------------------------------------------------------------------
(* search_pages *)

\* page_content[:5000] + "..."
StoredContent(page_content) ==
    SubSeq(page_content, 1, Min(Len(page_content), ContentCap)) \o Marker

\* the loop without its cap: every query is issued
Issued_All(queries) == queries

\* queries[:2]
Issued(queries) == Take(queries, QueryCap)

NoLink == [link |-> "", fetch |-> "none", text |-> ""]

ResultEntries(Texts) ==
    [link : Links, fetch : {"ok"}, text : Texts]
        \cup [link : Links, fetch : {"non200", "exc"}, text : {""}]
        \cup {NoLink}

SerpAnswers(Texts) ==
    [kind : {"ok"}, organic_results : SeqsUpTo(ResultEntries(Texts), MaxResults)]
        \cup [kind : {"non200", "exc"}, organic_results : {<<>>}]

\* the loop over organic_results[:num_pages]
RECURSIVE ScrapeResults(_, _, _)
ScrapeResults(organic_results, q, frame) ==
    IF organic_results = <<>> THEN frame
    ELSE LET r == Head(organic_results)
             next ==
                 IF ~Truthy(r.link) THEN frame
                 ELSE IF r.fetch = "ok"
                 THEN [frame EXCEPT
                          !.fetches = Append(@, r.link),
                          !.results = Append(@, [url |-> r.link,
                                                 content |-> StoredContent(r.text)]),
                          !.origin = Append(@, [q |-> q, text |-> r.text])]
                 ELSE [frame EXCEPT !.fetches = Append(@, r.link)]
         IN ScrapeResults(Tail(organic_results), q, next)

\* one iteration of the loop over queries[:2]
SearchQuery(frame, query, answer) ==
    IF ~HasQuery(query)
    THEN [frame EXCEPT !.status = "raised"]
    ELSE LET sent == [frame EXCEPT !.requests = Append(@, query.query)]
         IN IF answer.kind = "ok"
            THEN ScrapeResults(Take(answer.organic_results, frame.num_pages),
                               frame.i, sent)
            ELSE sent

IdleFrame ==
    [status |-> "idle", queries |-> <<>>, num_pages |-> NumPagesDefault,
     tbs |-> "", i |-> 1, results |-> <<>>, origin |-> <<>>,
     requests |-> <<>>, fetches |-> <<>>]

\* search_pages entered: up to the first search request
EnterSearch(queries, num_pages, tbs) ==
    [IdleFrame EXCEPT
        !.status = IF Issued(queries) = <<>> THEN "returned" ELSE "running",
        !.queries = queries, !.num_pages = num_pages, !.tbs = tbs]

\* the frame after iteration frame.i has run with the given answer
StepSearch(frame, answer) ==
    LET after == SearchQuery(frame, Issued(frame.queries)[frame.i], answer)
    IN IF after.status = "raised" THEN after
       ELSE [after EXCEPT
                !.i = frame.i + 1,
                !.status = IF frame.i + 1 > Len(Issued(frame.queries))
                           THEN "returned" ELSE "running"]

-----------------------------------------------------------------------------
(* _clean_json_string *)

\* a text is a sequence of atoms: the triple backtick, the tag json, line
\* feed, carriage return, space, and a JSON value
Atoms == {"FENCE", "json", "LF", "CR", "SP", "VALUE"}

Whitespace == {"LF", "CR", "SP"}

\* str.strip()
RECURSIVE LStrip(_)
LStrip(t) == IF t /= <<>> /\ Head(t) \in Whitespace THEN LStrip(Tail(t)) ELSE t

RECURSIVE RStrip(_)
RStrip(t) ==
    IF t /= <<>> /\ t[Len(t)] \in Whitespace
    THEN RStrip(SubSeq(t, 1, Len(t) - 1)) ELSE t

Strip(t) == RStrip(LStrip(t))

\* str.startswith(p)
StartsWith(t, p) == Len(t) >= Len(p) /\ SubSeq(t, 1, Len(p)) = p

EndsWith(t, p) == Len(t) >= Len(p) /\ SubSeq(t, Len(t) - Len(p) + 1, Len(t)) = p

\* re.sub('^' + p, '', t) and re.sub(p + '$', '', t) on a stripped text
RemovePrefix(t, p) == IF StartsWith(t, p) THEN SubSeq(t, Len(p) + 1, Len(t)) ELSE t

RemoveSuffix(t, p) == IF EndsWith(t, p) THEN SubSeq(t, 1, Len(t) - Len(p)) ELSE t

\* json.loads accepts t: one value, with whitespace around it
ValidJson(t) == Strip(t) = <<"VALUE">>

\* the markdown code block taken off a stripped text
CleanText(content) ==
    IF StartsWith(content, <<"FENCE", "json">>)
    THEN Strip(RemoveSuffix(RemovePrefix(content, <<"FENCE", "json", "LF">>),
                            <<"LF", "FENCE">>))
    ELSE IF StartsWith(content, <<"FENCE">>)
    THEN Strip(RemoveSuffix(RemovePrefix(content, <<"FENCE", "LF">>),
                            <<"LF", "FENCE">>))
    ELSE content

_clean_json_string(response) ==
    LET content == CleanText(Strip(response))
    IN IF ValidJson(content)
       THEN [raised |-> FALSE, text |-> content]
       ELSE [raised |-> TRUE, text |-> <<>>]

-----------------------------------------------------------------------------
(* generate_intent_signals *)

\* text k of the planner's query list
QueryText(k) == IF k = 1 THEN "qA" ELSE IF k = 2 THEN "qB" ELSE IF k = 3 THEN "qC" ELSE "qD"

\* the search_queries lists a planner response can hold: entry k is a
\* SearchQuery record with text QueryText(k), or a record without 'query'
PlannerLists ==
    UNION {{[k \in 1..n |-> IF k \in bad THEN NoQuery ELSE Rec(QueryText(k))] :
              bad \in SUBSET (1..n)} : n \in 0..MaxQueries}

\* required_keys
RequiredKeys ==
    {"intent_components", "signal_categories", "source_mapping",
     "query_components", "search_queries"}

\* what the model call of the planner answers: it raises ("exc"), its
\* cleaned text is not JSON ("badjson"), or it is a JSON object with the
\* top-level keys Keys; without 'search_queries' there is no query list
ResponsesWith(KeySets) ==
    [kind : {"exc", "badjson"}, keys : {{}}, search_queries : {<<>>}]
        \cup {[kind |-> "json", keys |-> K, search_queries |-> qs] :
                 K \in {K \in KeySets : "search_queries" \in K}, qs \in PlannerLists}
        \cup [kind : {"json"}, keys : {K \in KeySets : "search_queries" \notin K},
              search_queries : {<<>>}]

\* the answers in runs of the whole pipeline: all five keys, or
\* 'search_queries' missing
PlannerResponses ==
    ResponsesWith({RequiredKeys, RequiredKeys \ {"search_queries"}})

\* raise, return the parsed object, or raise for its missing keys
ResponseClass(response) ==
    IF response.kind /= "json" THEN response.kind
    ELSE IF RequiredKeys \ response.keys /= {} THEN "missing"
    ELSE "ok"

\* every failure answered with an empty plan instead of a raise
generate_intent_signals_Swallows(response) ==
    IF ResponseClass(response) = "ok"
    THEN [raised |-> FALSE,
          plan |-> [present |-> TRUE, keys |-> response.keys,
                    search_queries |-> response.search_queries]]
    ELSE [raised |-> FALSE,
          plan |-> [present |-> TRUE, keys |-> RequiredKeys, search_queries |-> <<>>]]

\* the validation of the keys left out
generate_intent_signals_NoValidation(response) ==
    IF response.kind = "json"
    THEN [raised |-> FALSE,
          plan |-> [present |-> TRUE, keys |-> response.keys,
                    search_queries |-> response.search_queries]]
    ELSE [raised |-> TRUE, plan |-> NoPlan]

generate_intent_signals(response) ==
    IF ResponseClass(response) = "ok"
    THEN [raised |-> FALSE,
          plan |-> [present |-> TRUE, keys |-> response.keys,
                    search_queries |-> response.search_queries]]
    ELSE [raised |-> TRUE, plan |-> NoPlan]

-----------------------------------------------------------------------------
(* analyze_intent_signals and find_company_contacts *)

NoCompany == [company |-> "", complete |-> FALSE, url |-> "", roles |-> "fail",
              profiles |-> 0]

\* an element of a page's intent_signals, with the answers its contact
\* resolution gets: roles is what get_decision_makers finds ("fail": the
\* call raised, the text did not parse or the array was empty), profiles the
\* number of profiles search_profiles returns
Companies ==
    [company : {"Acme"}, complete : BOOLEAN, url : Links, roles : {"fail", "one"},
     profiles : 0..MaxProfiles]

\* what the generative model answers for one page
PageAnswers ==
    [kind : {"exc", "badjson", "nosignals"}, company : {NoCompany}]
        \cup [kind : {"ok"}, company : Companies]

ProfileName(k) == IF k = 1 THEN "p1" ELSE IF k = 2 THEN "p2" ELSE "p3"

\* get_email with the discovery of formats that follows its first return
get_email_Discovers(employee_name, company_name) == employee_name

\* get_email returns at its first statement, before any call
get_email(employee_name, company_name) == ""

get_decision_makers(company) ==
    IF company.roles = "one" THEN <<"CTO">> ELSE <<>>

find_company_contacts(company) ==
    IF ~company.complete THEN <<>>
    ELSE IF get_decision_makers(company) = <<>> THEN <<>>
    ELSE [k \in 1..company.profiles |->
             [company |-> company.company, url |-> company.url,
              role |-> get_decision_makers(company)[1],
              name |-> ProfileName(k),
              email |-> get_email(ProfileName(k), company.company)]]

RECURSIVE Flatten(_)
Flatten(ss) == IF ss = <<>> THEN <<>> ELSE Head(ss) \o Flatten(Tail(ss))

\* answers[k] is the model's answer for pages[k]
analyze_intent_signals(pgs, answers) ==
    LET valid_results == SelectSeq(answers, LAMBDA a : a.kind = "ok")
        companies == [k \in 1..Len(valid_results) |-> valid_results[k].company]
    IN Flatten([k \in 1..Len(companies) |-> find_company_contacts(companies[k])])

\* the model calls the analysis makes: one per page, one per company
ModelCalls(pgs, answers) ==
    Len(pgs) + Len(SelectSeq(answers, LAMBDA a : a.kind = "ok"))

-----------------------------------------------------------------------------
(* analyze_intent_signals, step by step *)

\* limit=2 of the call of search_profiles
ProfileLimit == 2

\* an element of intent_signals: a dict with all four fields ("full"),
\* without 'company' or not a dict at all ("nocompany"), or without
\* 'signals' ("nosignals")
CompanyShapes == {"full", "nocompany", "nosignals"}

CompanyName(j) == IF j = 1 THEN "Acme" ELSE IF j = 2 THEN "Bolt" ELSE "Cord"

\* the intent_signals lists the model gives for the page at url
SignalLists(url) ==
    UNION {{cs \in [1..n -> [shape : CompanyShapes, company : {"Acme", "Bolt", "Cord"},
                             url : {url}]] :
               \A j \in 1..n : cs[j].company = CompanyName(j)} : n \in 1..MaxCompanies}

\* what the generative model answers for the page at url: the call raises,
\* the text is empty, the cleaned text is not JSON, the object has no
\* intent_signals (or an empty list), or it has a list of companies
SignalAnswers(url) ==
    [kind : {"exc", "notext", "badjson", "nosignals"}, intent_signals : {<<>>}]
        \cup [kind : {"ok"}, intent_signals : SignalLists(url)]

\* analyze_single_page letting its exceptions out
analyze_single_page_Propagates(answer) ==
    IF answer.kind \in {"exc", "badjson"}
    THEN [raised |-> TRUE, found |-> FALSE, intent_signals |-> <<>>]
    ELSE [raised |-> FALSE, found |-> answer.kind = "ok",
          intent_signals |-> answer.intent_signals]

\* found: the result is the parsed object; otherwise it is None
analyze_single_page(answer) ==
    IF answer.kind = "ok" /\ answer.intent_signals /= <<>>
    THEN [raised |-> FALSE, found |-> TRUE, intent_signals |-> answer.intent_signals]
    ELSE [raised |-> FALSE, found |-> FALSE, intent_signals |-> <<>>]

\* an item of the profile search's organic_results: a LinkedIn profile
\* whose title names the company ("match"), a link that is no profile, a
\* title without the company's name, or an item without 'link'
ItemKinds == {"match", "notprofile", "othertitle", "nolink"}

NoSearch == [kind |-> "none", items |-> <<>>]

ProfileAnswers(Kinds, n) ==
    [kind : {"ok"}, items : SeqsUpTo(Kinds, n)]
        \cup [kind : {"non200", "exc"}, items : {<<>>}]

\* the profiles of the items that pass both tests, all of them
RECURSIVE ParseFrom(_, _)
ParseFrom(items, k) ==
    IF k > Len(items) THEN <<>>
    ELSE (IF items[k] = "match" THEN <<ProfileName(k)>> ELSE <<>>)
             \o ParseFrom(items, k + 1)

_parse_google_results(items) == ParseFrom(items, 1)

\* limit goes into the request as 'results'; the answer is parsed whole
search_profiles(answer, limit) ==
    IF answer.kind /= "ok" THEN <<>>
    ELSE IF \E k \in DOMAIN answer.items : answer.items[k] = "nolink" THEN <<>>
    ELSE _parse_google_results(answer.items)

\* the answers the resolution of one company gets: what the role lookup
\* does (it raises out of its own handler, finds no role, or one), and the
\* answer of the profile search when it is made
ResolutionAnswers(company, Profiles) ==
    IF company.shape = "nocompany"
    THEN {[roles |-> "nocall", profiles |-> NoSearch]}
    ELSE [roles : {"raise", "none"}, profiles : {NoSearch}]
             \cup [roles : {"one"}, profiles : Profiles]

\* the body of the try of find_company_contacts
CompanyContacts(company, answer) ==
    IF company.shape = "nocompany" \/ answer.roles = "raise"
    THEN [raised |-> TRUE, contacts |-> <<>>]
    ELSE IF answer.roles /= "one"
    THEN [raised |-> FALSE, contacts |-> <<>>]
    ELSE LET profiles == search_profiles(answer.profiles, ProfileLimit)
         IN IF profiles /= <<>> /\ company.shape = "nosignals"
            THEN [raised |-> TRUE, contacts |-> <<>>]
            ELSE [raised |-> FALSE,
                  contacts |-> [k \in 1..Len(profiles) |->
                                   [company |-> company.company, url |-> company.url,
                                    role |-> "CTO", name |-> profiles[k],
                                    email |-> get_email(profiles[k], company.company)]]]

\* find_company_contacts without its handler
ResolveCompany_Propagates(company, answer) == CompanyContacts(company, answer)

\* find_company_contacts: the body, and [] for any exception
ResolveCompany(company, answer) ==
    LET body == CompanyContacts(company, answer)
    IN [raised |-> FALSE,
        contacts |-> IF body.raised THEN <<>> ELSE body.contacts]

NoAnalysis ==
    [status |-> "idle", pages |-> <<>>, answers |-> <<>>, companies |-> <<>>,
     k |-> 1, all_contacts |-> <<>>, log |-> <<>>, events |-> <<>>]

\* a step of the analysis: the task of page index has run, or the
\* resolution of a company has
PageEvent(index) == [kind |-> "page", index |-> index, company |-> ""]

CompanyEvent(index, company) ==
    [kind |-> "company", index |-> index, company |-> company]

\* the loop over companies run from the last company to the first
NextCompany_Reversed(companies, k) == companies[Len(companies) - k + 1]

\* the company of iteration k of the loop over companies
NextCompany(companies, k) == companies[k]

\* the pages are analyzed (the model call is synchronous, so the tasks run
\* one after the other in page order) and the companies gathered
analyze_pages(answers) ==
    /\ an.status = "called"
    /\ LET results == [k \in 1..Len(answers) |-> analyze_single_page(answers[k])]
           valid_results == SelectSeq(results, LAMBDA r : r.found)
           companies == Flatten([k \in 1..Len(valid_results) |->
                                    valid_results[k].intent_signals])
       IN /\ Len(companies) <= MaxCompanies
          /\ an' = [an EXCEPT
                      !.answers = answers,
                      !.companies = companies,
                      !.events = [k \in 1..Len(answers) |-> PageEvent(k)],
                      !.status = IF \E k \in DOMAIN results : results[k].raised
                                 THEN "raised"
                                 ELSE IF companies = <<>> THEN "returned"
                                 ELSE "resolving"]

\* one iteration of the loop over companies
resolve_company(Profiles) ==
    /\ an.status = "resolving"
    /\ LET company == NextCompany(an.companies, an.k)
       IN \E answer \in ResolutionAnswers(company, Profiles) :
             LET got == ResolveCompany(company, answer)
             IN an' = [an EXCEPT
                         !.log = Append(@, answer),
                         !.events = Append(@, CompanyEvent(an.k, company)),
                         !.all_contacts = IF got.raised THEN @ ELSE @ \o got.contacts,
                         !.k = IF got.raised THEN @ ELSE @ + 1,
                         !.status = IF got.raised THEN "raised"
                                    ELSE IF an.k + 1 > Len(an.companies)
                                    THEN "returned" ELSE "resolving"]

-----------------------------------------------------------------------------
(* find_intent_signals *)

\* the first test reading self.user_input too: a call without an
\* argument plans again once an input is stored
Branch_Replans(u) ==
    IF Truthy(u) \/ Truthy(user_input) THEN "fresh"
    ELSE IF signals_to_track.present THEN "tracked"
    ELSE "error"

\* the precondition test left out: every call without an argument takes
\* the tracked branch
Branch_NoPrecondition(u) ==
    IF Truthy(u) THEN "fresh" ELSE "tracked"

\* which branch of the if / elif / else the call takes
Branch(u) ==
    IF Truthy(u) THEN "fresh"
    ELSE IF signals_to_track.present THEN "tracked"
    ELSE "error"

\* the tbs the call passes to search_pages
RecencyFilter == IF Truthy(user_input) THEN TbsFresh ELSE TbsRepeat

QueryOf(query) == query.query

RECURSIVE TrackQueries(_, _, _)
\* the loop that builds successful_queries; it raises at the first
\* query without a 'query' key that has a page to credit
TrackQueries(search_queries, pgs, successful_urls) ==
    IF search_queries = <<>> THEN [raised |-> FALSE, list |-> <<>>]
    ELSE LET query == Head(search_queries)
             hit == \E k \in DOMAIN pgs : pgs[k].url \in successful_urls
             rest == TrackQueries(Tail(search_queries), pgs, successful_urls)
         IN IF ~hit THEN rest
            ELSE IF ~HasQuery(query) THEN [raised |-> TRUE, list |-> <<>>]
            ELSE [raised |-> rest.raised,
                  list |-> IF rest.raised THEN <<>> ELSE <<QueryOf(query)>> \o rest.list]

\* the plan dropped when no query was successful
FilteredSignals_ClearsWhenEmpty(plan, successful_queries) ==
    IF successful_queries = <<>> THEN NoPlan
    ELSE [plan EXCEPT !.search_queries =
            [k \in 1..Len(successful_queries) |-> Str(successful_queries[k])]]

\* filtered_signals_data: the copy of the plan with the narrowed list
FilteredSignals(plan, successful_queries) ==
    [plan EXCEPT !.search_queries =
        [k \in 1..Len(successful_queries) |-> Str(successful_queries[k])]]

NoResult == [status |-> "none", error |-> "", successful_queries |-> <<>>,
             contacts |-> <<>>]

Raised(e) == [NoResult EXCEPT !.status = "raised", !.error = e]

NoCalls == [planner |-> 0, response |-> "none", model |-> 0, trace |-> <<>>]

\* a stage of the pipeline is entered; input is what the planner is given
Stage(name, input) == [stage |-> name, input |-> input]

\* the plan is stored when the planner has returned
TrackedAfterPlanning_Early(tracked, plan) == plan

\* the planner's plan goes into the local signals_data only
TrackedAfterPlanning(tracked, plan) == tracked

\* how find_intent_signals goes on once search_pages has got to frame
AfterSearch(frame) ==
    /\ sp' = frame
    /\ IF frame.status = "running"
       THEN /\ pc' = "searching"
            /\ UNCHANGED <<pages, result>>
       ELSE IF frame.status = "returned"
       THEN /\ pc' = "analyze"
            /\ pages' = frame.results
            /\ UNCHANGED result
       ELSE /\ pc' = "idle"
            /\ result' = Raised("search_pages")
            /\ UNCHANGED pages

\* a call is made: the branch is taken; the fresh branch suspends at the
\* planner's model call, the tracked branch goes on into search_pages
find_intent_signals_call(u) ==
    /\ pc = "idle"
    /\ arg' = u
    /\ contacts' = <<>>
    /\ UNCHANGED signals_to_track
    /\ hist' = [hist EXCEPT
                  !.kind = IF Truthy(u) THEN "fresh" ELSE "repeat",
                  !.branch = Branch(u),
                  !.startPlan = signals_to_track,
                  !.stale = IF Truthy(u) THEN signals_to_track.present ELSE @,
                  !.onStale = (Branch(u) = "tracked") /\ hist.stale]
    /\ CASE Branch(u) = "fresh" ->
              /\ user_input' = u
              /\ pc' = "planning"
              /\ ext' = [NoCalls EXCEPT !.planner = 1,
                                        !.trace = <<Stage("planner", u)>>]
              /\ signals_data' = NoPlan
              /\ sp' = IdleFrame
              /\ pages' = <<>>
              /\ result' = NoResult
         [] Branch(u) = "tracked" ->
              /\ signals_data' = signals_to_track
              /\ ext' = [NoCalls EXCEPT !.trace = <<Stage("search_pages", "")>>]
              /\ LET frame == EnterSearch(signals_to_track.search_queries,
                                          NumPagesDefault, RecencyFilter)
                 IN /\ sp' = frame
                    /\ pc' = IF frame.status = "returned" THEN "analyze" ELSE "searching"
                    /\ pages' = <<>>
                    /\ result' = NoResult
              /\ UNCHANGED user_input
         [] OTHER ->
              /\ pc' = "idle"
              /\ result' = Raised("ValueError")
              /\ ext' = NoCalls
              /\ signals_data' = NoPlan
              /\ sp' = IdleFrame
              /\ pages' = <<>>
              /\ UNCHANGED user_input

\* the planner's model call answers: generate_intent_signals returns a plan
\* and the call goes on into search_pages, or it raises
planner_returns(response) ==
    /\ pc = "planning"
    /\ LET got == generate_intent_signals(response)
       IN IF got.raised
          THEN /\ pc' = "idle"
               /\ result' = Raised("planner")
               /\ ext' = [ext EXCEPT !.response = ResponseClass(response)]
               /\ UNCHANGED <<signals_to_track, signals_data, sp, pages>>
          ELSE /\ signals_data' = got.plan
               /\ signals_to_track' = TrackedAfterPlanning(signals_to_track, got.plan)
               /\ ext' = [ext EXCEPT !.response = ResponseClass(response),
                                     !.trace = Append(@, Stage("search_pages", ""))]
               /\ AfterSearch(EnterSearch(got.plan.search_queries,
                                          NumPagesDefault, RecencyFilter))
    /\ UNCHANGED <<user_input, arg, contacts, hist>>

\* the search API answers the request of iteration sp.i, and the pages of
\* its results are fetched; pc "direct" is search_pages called on its own
search_pages_step(Answers) ==
    /\ pc \in {"searching", "direct"}
    /\ sp.status = "running"
    /\ \E answer \in Answers :
          IF pc = "direct"
          THEN /\ sp' = StepSearch(sp, answer)
               /\ UNCHANGED <<pc, pages, result>>
          ELSE AfterSearch(StepSearch(sp, answer))
    /\ UNCHANGED <<signals_to_track, user_input, arg, signals_data, contacts,
                   ext, hist>>

\* the pages are analyzed and the companies' contacts resolved; then the
\* successful queries are tracked and the call returns, or raises
analyze_and_track(answers) ==
    /\ pc = "analyze"
    /\ LET found == analyze_intent_signals(pages, answers)
           successful_urls == {found[k].url : k \in DOMAIN found}
           tracked == TrackQueries(signals_data.search_queries, pages,
                                   successful_urls)
       IN /\ contacts' = found
          /\ ext' = [ext EXCEPT
                       !.model = ModelCalls(pages, answers),
                       !.trace = Append(@, Stage("analyze_intent_signals", ""))
                                     \o (IF tracked.raised THEN <<>>
                                         ELSE <<Stage("track", "")>>)]
          /\ IF tracked.raised
             THEN /\ result' = Raised("tracking")
                  /\ UNCHANGED <<signals_to_track, hist>>
             ELSE /\ signals_to_track' = FilteredSignals(signals_data, tracked.list)
                  /\ result' = [status |-> "returned", error |-> "",
                                successful_queries |-> tracked.list,
                                contacts |-> found]
                  /\ hist' = [hist EXCEPT
                                !.everReturned = TRUE,
                                !.planInput = IF hist.kind = "fresh" THEN arg ELSE @,
                                !.stale = IF hist.kind = "fresh" THEN FALSE ELSE @]
    /\ pc' = "idle"
    /\ UNCHANGED <<user_input, arg, signals_data, sp, pages>>

-----------------------------------------------------------------------------
(* The /find-intent-signals endpoint and its database session *)

\* check_frequency_hours=24
CheckFrequencyHours == 24

EmptyDb == [queries |-> <<>>, leads |-> <<>>]

\* a session on db: new holds the objects added and not yet flushed, tx
\* the rows written in the open transaction
Session(db) == [db |-> db, new |-> EmptyDb, tx |-> EmptyDb]

\* a session that commits what it flushes
Flush_AutoCommit(s) ==
    [s EXCEPT !.db = [queries |-> @.queries \o s.new.queries,
                      leads |-> @.leads \o s.new.leads],
              !.new = EmptyDb]

\* the added objects are written in the transaction
Flush(s) ==
    [s EXCEPT !.tx = [queries |-> @.queries \o s.new.queries,
                      leads |-> @.leads \o s.new.leads],
              !.new = EmptyDb]

Commit(s) ==
    LET flushed == Flush(s)
    IN [flushed EXCEPT !.db = [queries |-> @.queries \o flushed.tx.queries,
                               leads |-> @.leads \o flushed.tx.leads],
                       !.tx = EmptyDb]

Rollback(s) == [s EXCEPT !.new = EmptyDb, !.tx = EmptyDb]

NewQuery(id, user, text, results) ==
    [id |-> id, user_id |-> user, query_text |-> text,
     signals_to_track |-> results.successful_queries,
     is_paused |-> FALSE, check_frequency_hours |-> CheckFrequencyHours]

NewLead(query_id, contact) ==
    [query_id |-> query_id, company_name |-> contact.company,
     website |-> contact.url, employee_name |-> contact.name,
     employee_email |-> contact.email, is_checked |-> FALSE]

\* where the database may refuse: the insert of the query at flush, the
\* insert of a lead or the commit itself at commit
Failures(results) ==
    {"none", "flush", "commit"}
        \cup (IF results.contacts /= <<>> THEN {"lead"} ELSE {})

\* the endpoint once the run has returned results: the rows committed and
\* the answer ("committed": the results; "failed": status 500)
SaveResults(db, id, user, text, results, fail) ==
    LET new_query == NewQuery(id, user, text, results)
        added == [Session(db) EXCEPT !.new.queries = Append(@, new_query)]
    IN IF fail = "flush"
       THEN [outcome |-> "failed", db |-> Rollback(added).db]
       ELSE LET flushed == Flush(added)
                leads == [k \in 1..Len(results.contacts) |->
                             NewLead(new_query.id, results.contacts[k])]
                filled == [flushed EXCEPT !.new.leads = @ \o leads]
            IN IF fail \in {"lead", "commit"}
               THEN [outcome |-> "failed", db |-> Rollback(filled).db]
               ELSE [outcome |-> "committed", db |-> Commit(filled).db]

ApiUsers == {"alice", "bob"}

\* no request made; owner is the user whose request planned the plan that
\* the instance holds
NoApi ==
    [phase |-> "idle", user |-> "", text |-> "", made |-> 0, owner |-> "",
     fail |-> "none", outcome |-> "none", before |-> EmptyDb, db |-> EmptyDb]

\* a request arrives and the run is started on the shared instance
api_request(user, text) ==
    /\ api.phase \in {"idle", "answered"}
    /\ api.made < MaxRequests
    /\ find_intent_signals_call(text)
    /\ api' = [api EXCEPT !.phase = "running", !.user = user, !.text = text,
                          !.made = @ + 1, !.fail = "none", !.outcome = "none",
                          !.before = api.db]

\* the run has ended: its results are saved and returned, or the session
\* is rolled back and the request answered with status 500
api_respond ==
    /\ api.phase = "running"
    /\ pc = "idle"
    /\ IF result.status = "raised"
       THEN api' = [api EXCEPT !.phase = "answered", !.outcome = "failed"]
       ELSE \E fail \in Failures(result) :
               LET saved == SaveResults(api.db, api.made, api.user, api.text,
                                        result, fail)
               IN api' = [api EXCEPT
                            !.phase = "answered",
                            !.fail = fail,
                            !.outcome = saved.outcome,
                            !.db = saved.db,
                            !.owner = IF hist.kind = "fresh" THEN api.user ELSE @]

-----------------------------------------------------------------------------
(* Functions and endpoints taken on their own: nothing called yet *)

NoCleaning == [status |-> "idle", input |-> <<>>, output |-> <<>>]

NoRace == [status |-> "idle", calls |-> <<>>]

NoRoles == [status |-> "idle", answer |-> [kind |-> "exc", content |-> <<>>],
            raised |-> FALSE, roles |-> <<>>]

NoRequest == [user |-> "", op |-> "none", target |-> "", code |-> 0,
              detail |-> "", rows |-> {}]

NoRows == [queries |-> {}, leads |-> {}]

NoTables == [status |-> "idle", db |-> NoRows, before |-> NoRows,
             last |-> NoRequest]

SideIdle ==
    /\ cj = NoCleaning
    /\ cc = NoRace
    /\ dm = NoRoles
    /\ rt = NoTables

-----------------------------------------------------------------------------
(* The instance and its callers *)

ShortText == "a"
LongText == Rep("a", ContentCap + 1)

\* answers of the search API in runs of the whole pipeline: at most one
\* organic result, whose page is fetched or not
MainAnswers ==
    {a \in SerpAnswers({ShortText}) :
        /\ Len(a.organic_results) <= 1
        /\ \A k \in DOMAIN a.organic_results : a.organic_results[k].fetch /= "exc"}

\* generate_intent_signals not called on its own
NoPlanning == [status |-> "idle", response |-> [kind |-> "exc", keys |-> {},
                                               search_queries |-> <<>>],
               plan |-> NoPlan]

NoHist == [kind |-> "none", branch |-> "none", startPlan |-> NoPlan,
           stale |-> FALSE, onStale |-> FALSE, everReturned |-> FALSE,
           planInput |-> ""]

\* IntentSignalFinder.__init__
Init ==
    /\ signals_to_track = NoPlan
    /\ user_input = ""
    /\ pc = "idle"
    /\ arg = ""
    /\ signals_data = NoPlan
    /\ sp = IdleFrame
    /\ pages = <<>>
    /\ contacts = <<>>
    /\ result = NoResult
    /\ ext = NoCalls
    /\ hist = NoHist
    /\ pl = NoPlanning
    /\ seen = <<>>
    /\ an = NoAnalysis
    /\ api = NoApi
    /\ SideIdle

Call ==
    /\ \E u \in UserInputs \cup {""} : find_intent_signals_call(u)
    /\ UNCHANGED aux

Plan ==
    /\ \E response \in PlannerResponses : planner_returns(response)
    /\ UNCHANGED aux

Search ==
    /\ search_pages_step(MainAnswers)
    /\ UNCHANGED aux

Analyze ==
    /\ \E answers \in [1..Len(pages) -> PageAnswers] : analyze_and_track(answers)
    /\ UNCHANGED aux

Next == Call \/ Plan \/ Search \/ Analyze

Spec == Init /\ [][Next]_vars

-----------------------------------------------------------------------------
(* search_pages called on its own, as the tests call it *)

Entry(shape, k) ==
    IF shape = "rec" THEN Rec(QueryText(k))
    ELSE IF shape = "str" THEN Str(QueryText(k))
    ELSE NoQuery

\* lists of SearchQuery records, records without 'query' and plain strings
QueryLists ==
    UNION {{[k \in 1..n |-> Entry(shapes[k], k)] :
              shapes \in [1..n -> {"rec", "noquery", "str"}]} : n \in 0..MaxQueries}

WideAnswers == SerpAnswers({ShortText, LongText})

InitSearch ==
    /\ signals_to_track = NoPlan
    /\ user_input = ""
    /\ pc = "direct"
    /\ arg = ""
    /\ signals_data = NoPlan
    /\ \E queries \in QueryLists, num_pages \in 1..NumPagesDefault :
          sp = EnterSearch(queries, num_pages, TbsFresh)
    /\ pages = <<>>
    /\ contacts = <<>>
    /\ result = NoResult
    /\ ext = NoCalls
    /\ hist = NoHist
    /\ pl = NoPlanning
    /\ seen = <<>>
    /\ an = NoAnalysis
    /\ api = NoApi
    /\ SideIdle

SearchDirect ==
    /\ search_pages_step(WideAnswers)
    /\ UNCHANGED aux

NextSearch == SearchDirect

SpecSearch == InitSearch /\ [][NextSearch]_vars

-----------------------------------------------------------------------------
(* generate_intent_signals called on its own, as the tests call it *)

\* a key the prompt does not ask for
ExtraKey == "notes"

WideResponses == ResponsesWith(SUBSET (RequiredKeys \cup {ExtraKey}))

InitPlanner ==
    /\ signals_to_track = NoPlan
    /\ user_input = ""
    /\ pc = "planner"
    /\ arg = ""
    /\ signals_data = NoPlan
    /\ sp = IdleFrame
    /\ pages = <<>>
    /\ contacts = <<>>
    /\ result = NoResult
    /\ ext = NoCalls
    /\ hist = NoHist
    /\ \E response \in WideResponses :
          pl = [NoPlanning EXCEPT !.status = "called", !.response = response]
    /\ seen = <<>>
    /\ an = NoAnalysis
    /\ api = NoApi
    /\ SideIdle

\* the model call answers and generate_intent_signals returns or raises
PlannerDirect ==
    /\ pl.status = "called"
    /\ LET got == generate_intent_signals(pl.response)
       IN pl' = [pl EXCEPT !.status = IF got.raised THEN "raised" ELSE "returned",
                           !.plan = got.plan]
    /\ UNCHANGED <<core, seen, an, api, side>>

NextPlanner == PlannerDirect

SpecPlanner == InitPlanner /\ [][NextPlanner]_vars

-----------------------------------------------------------------------------
(* search_pages called on its own, with the answers of the search API kept *)

\* link k of a results page
LinkOf(k) == IF k % 2 = 1 THEN "u1" ELSE "u2"

\* the results pages: result k has no link, or link k, whose page is
\* fetched, answers non-200 or raises
GatewayResults ==
    UNION {{rs \in [1..n -> ResultEntries({ShortText})] :
               \A k \in 1..n : rs[k].link \in {"", LinkOf(k)}} : n \in 0..MaxResults}

GatewayAnswers ==
    [kind : {"ok"}, organic_results : GatewayResults]
        \cup [kind : {"non200", "exc"}, organic_results : {<<>>}]

\* the query lists: records with 'query', as the planner gives them, and
\* plain strings, as the run tracker stores them
GatewayLists ==
    UNION {{qs \in [1..n -> [shape : {"rec", "str"}, query : {"qA", "qB", "qC", "qD"}]] :
               \A k \in 1..n : qs[k].query = QueryText(k)} : n \in 0..MaxQueries}

InitGateway ==
    /\ signals_to_track = NoPlan
    /\ user_input = ""
    /\ pc = "direct"
    /\ arg = ""
    /\ signals_data = NoPlan
    /\ \E queries \in GatewayLists :
          sp = EnterSearch(queries, NumPagesDefault, TbsFresh)
    /\ pages = <<>>
    /\ contacts = <<>>
    /\ result = NoResult
    /\ ext = NoCalls
    /\ hist = NoHist
    /\ pl = NoPlanning
    /\ seen = <<>>
    /\ an = NoAnalysis
    /\ api = NoApi
    /\ SideIdle

\* one iteration of the loop; the answer counts when the request was sent
SearchLogged ==
    /\ \E answer \in GatewayAnswers :
          /\ search_pages_step({answer})
          /\ seen' = IF HasQuery(Issued(sp.queries)[sp.i])
                     THEN Append(seen, answer) ELSE seen
    /\ UNCHANGED <<pl, an, api, side>>

NextGateway == SearchLogged

SpecGateway == InitGateway /\ [][NextGateway]_vars

\* the pages of one answer that were fetched, in result order
FetchedPages(answer, num_pages) ==
    LET taken == Take(answer.organic_results, num_pages)
        fetched == SelectSeq(taken, LAMBDA r : Truthy(r.link) /\ r.fetch = "ok")
    IN [k \in 1..Len(fetched) |->
           [url |-> fetched[k].link, content |-> StoredContent(fetched[k].text)]]

\* the pages of the answers, in query order
ExpectedPages(answers, num_pages) ==
    Flatten([k \in 1..Len(answers) |->
                IF answers[k].kind = "ok"
                THEN FetchedPages(answers[k], num_pages) ELSE <<>>])

\* the search API or a page fetch has failed
SomeFailure(answers, num_pages) ==
    \E k \in 1..Len(answers) :
        \/ answers[k].kind /= "ok"
        \/ \E j \in 1..Min(num_pages, Len(answers[k].organic_results)) :
              answers[k].organic_results[j].fetch \in {"non200", "exc"}

-----------------------------------------------------------------------------
(* Requests of the users on the one instance of the application *)

\* the answers of the services in runs behind the endpoint: a plan of at
\* most one query, at most one result, a company with a profile or none
ApiResponses == {r \in PlannerResponses : Len(r.search_queries) <= 1}

ApiAnswers ==
    {a \in MainAnswers :
        /\ a.kind /= "exc"
        /\ \A k \in DOMAIN a.organic_results : a.organic_results[k].link \in {"", "u1"}}

ApiPageAnswers ==
    {a \in PageAnswers :
        \/ a.kind = "nosignals"
        \/ /\ a.kind = "ok"
           /\ a.company.complete
           /\ a.company.roles = "one"
           /\ a.company.profiles >= 1}

InitApi == Init

ApiRequest ==
    /\ \E user \in ApiUsers, text \in UserInputs \cup {""} : api_request(user, text)
    /\ UNCHANGED <<pl, seen, an, side>>

ApiPlan ==
    /\ \E response \in ApiResponses : planner_returns(response)
    /\ UNCHANGED aux

ApiSearch ==
    /\ search_pages_step(ApiAnswers)
    /\ UNCHANGED aux

ApiAnalyze ==
    /\ \E answers \in [1..Len(pages) -> ApiPageAnswers] : analyze_and_track(answers)
    /\ UNCHANGED aux

ApiRespond ==
    /\ api_respond
    /\ UNCHANGED <<core, pl, seen, an, side>>

NextApi == ApiRequest \/ ApiPlan \/ ApiSearch \/ ApiAnalyze \/ ApiRespond

SpecApi == InitApi /\ [][NextApi]_vars

-----------------------------------------------------------------------------
(* analyze_intent_signals called on its own, as the tests call it *)

\* the pages search_pages has returned
PageLists ==
    {[k \in 1..n |-> [url |-> LinkOf(k), content |-> ShortText]] : n \in 0..MaxResults}

IdleFinder ==
    /\ signals_to_track = NoPlan
    /\ user_input = ""
    /\ pc = "analysis"
    /\ arg = ""
    /\ signals_data = NoPlan
    /\ sp = IdleFrame
    /\ pages = <<>>
    /\ contacts = <<>>
    /\ result = NoResult
    /\ ext = NoCalls
    /\ hist = NoHist
    /\ pl = NoPlanning
    /\ seen = <<>>
    /\ api = NoApi

\* one answer of the model for each page
RECURSIVE AnswersFor(_)
AnswersFor(pgs) ==
    IF pgs = <<>> THEN {<<>>}
    ELSE {<<a>> \o rest : a \in SignalAnswers(Head(pgs).url),
                          rest \in AnswersFor(Tail(pgs))}

InitAnalysis ==
    /\ IdleFinder
    /\ SideIdle
    /\ \E pgs \in PageLists :
          an = [NoAnalysis EXCEPT !.status = "called", !.pages = pgs]

\* the model answers for every page
AnalyzePages ==
    /\ an.status = "called"
    /\ \E answers \in AnswersFor(an.pages) : analyze_pages(answers)
    /\ UNCHANGED <<core, pl, seen, api, side>>

\* the profile search finds up to MaxProfiles profiles of the company
NarrowProfiles == ProfileAnswers({"match"}, MaxProfiles)

Resolve ==
    /\ resolve_company(NarrowProfiles)
    /\ UNCHANGED <<core, pl, seen, api, side>>

NextAnalysis == AnalyzePages \/ Resolve

SpecAnalysis == InitAnalysis /\ [][NextAnalysis]_vars

\* what the pages contribute, page by page
SignalsOf(answers) ==
    Flatten([k \in 1..Len(answers) |->
                IF answers[k].kind \in {"exc", "notext", "badjson", "nosignals"}
                THEN <<>> ELSE answers[k].intent_signals])

\* what the companies resolved so far contribute, company by company
ContactsOf(companies, log) ==
    Flatten([k \in 1..Len(log) |->
                IF CompanyContacts(companies[k], log[k]).raised
                THEN <<>> ELSE CompanyContacts(companies[k], log[k]).contacts])

-----------------------------------------------------------------------------
(* find_company_contacts called on its own *)

InitContacts ==
    /\ IdleFinder
    /\ SideIdle
    /\ \E company \in [shape : CompanyShapes, company : {"Acme"}, url : Links] :
          an = [NoAnalysis EXCEPT !.status = "resolving", !.companies = <<company>>]

\* the profile search answers with any items, up to MaxItems of them
WideProfiles == ProfileAnswers(ItemKinds, MaxItems)

ResolveWide ==
    /\ resolve_company(WideProfiles)
    /\ UNCHANGED <<core, pl, seen, api, side>>

NextContacts == ResolveWide

SpecContacts == InitContacts /\ [][NextContacts]_vars

-----------------------------------------------------------------------------
(* _clean_json_string called on its own, as the tests call it *)

Texts == SeqsUpTo(Atoms, MaxText)

InitCleaning ==
    /\ IdleFinder
    /\ an = NoAnalysis
    /\ cc = NoRace
    /\ dm = NoRoles
    /\ rt = NoTables
    /\ \E t \in Texts : cj = [NoCleaning EXCEPT !.status = "called", !.input = t]

Clean ==
    /\ cj.status = "called"
    /\ LET got == _clean_json_string(cj.input)
       IN cj' = [cj EXCEPT !.status = IF got.raised THEN "raised" ELSE "returned",
                           !.output = got.text]
    /\ UNCHANGED <<core, pl, seen, an, api, cc, dm, rt>>

NextCleaning == Clean

SpecCleaning == InitCleaning /\ [][NextCleaning]_vars

\* whitespace with a line break in it
LineBreak(w) ==
    /\ \A k \in DOMAIN w : w[k] \in Whitespace
    /\ \E k \in DOMAIN w : w[k] = "LF"

\* t is a JSON text in a fenced code block: the opening fence, with or
\* without the tag, ends its line, and the closing fence stands on a line
\* of its own
FencedJson(t) ==
    LET s == Strip(t)
        from == IF StartsWith(s, <<"FENCE", "json">>) THEN 3 ELSE 2
    IN /\ StartsWith(s, <<"FENCE">>)
       /\ EndsWith(s, <<"FENCE">>)
       /\ \E i \in from..(Len(s) - 1) :
             /\ s[i] = "VALUE"
             /\ LineBreak(SubSeq(s, from, i - 1))
             /\ LineBreak(SubSeq(s, i + 1, Len(s) - 1))

-----------------------------------------------------------------------------
(* get_decision_makers on its own, over the answers of the model call *)

\* what a response is made of: the fence, the tag, whitespace, JSON arrays
\* of no, one and two titles, a JSON object and a word that is no JSON
RoleAtoms == {"FENCE", "json", "SP", "LF", "ARR0", "ARR1", "ARR2", "OBJ", "WORD"}

\* json.loads of a JSON value; the object has no key 0
Parsed(atom) ==
    CASE atom = "ARR0" -> [kind |-> "array", items |-> <<>>]
      [] atom = "ARR1" -> [kind |-> "array", items |-> <<"CTO">>]
      [] atom = "ARR2" -> [kind |-> "array", items |-> <<"CTO", "CFO">>]
      [] OTHER -> [kind |-> "object", items |-> <<>>]

JsonValues == {"ARR0", "ARR1", "ARR2", "OBJ"}

\* the fence sliced off the stripped content, and the rest stripped
SlicedContent(content) ==
    LET c0 == Strip(content)
        c1 == IF StartsWith(c0, <<"FENCE", "json">>) THEN SubSeq(c0, 3, Len(c0)) ELSE c0
        c2 == IF StartsWith(c1, <<"FENCE">>) THEN SubSeq(c1, 2, Len(c1)) ELSE c1
        c3 == IF EndsWith(c2, <<"FENCE">>) THEN SubSeq(c2, 1, Len(c2) - 1) ELSE c2
    IN Strip(c3)

\* the try block on a response with content: json.loads, then the first
\* element of a non-empty value
RolesOf(content) ==
    LET c == SlicedContent(content)
    IN IF Len(c) = 1 /\ c[1] \in JsonValues
       THEN LET roles == Parsed(c[1])
            IN IF roles.kind = "array"
               THEN [raised |-> FALSE,
                     roles |-> IF roles.items = <<>> THEN <<>> ELSE <<roles.items[1]>>]
               ELSE [raised |-> TRUE, roles |-> <<>>]
       ELSE [raised |-> TRUE, roles |-> <<>>]

\* the responses: the call raises, a response without choices, a choice
\* without content, a choice with content
RoleResponses ==
    [kind : {"exc", "nochoices", "nocontent"}, content : {<<>>}]
        \cup [kind : {"content"}, content : SeqsUpTo(RoleAtoms, MaxContent)]

\* the handler reads response.choices[0].message.content for its log when
\* a response exists
HandlerRaises(response) == response.kind = "nochoices"

get_decision_makers_call(response) ==
    LET attempt == IF response.kind = "content" THEN RolesOf(response.content)
                   ELSE [raised |-> TRUE, roles |-> <<>>]
    IN IF ~attempt.raised THEN attempt
       ELSE [raised |-> HandlerRaises(response), roles |-> <<>>]

InitRoles ==
    /\ IdleFinder
    /\ an = NoAnalysis
    /\ cj = NoCleaning
    /\ cc = NoRace
    /\ rt = NoTables
    /\ \E response \in RoleResponses :
          dm = [NoRoles EXCEPT !.status = "called", !.answer = response]

GetRoles ==
    /\ dm.status = "called"
    /\ LET out == get_decision_makers_call(dm.answer)
       IN dm' = [dm EXCEPT !.status = "done", !.raised = out.raised, !.roles = out.roles]
    /\ UNCHANGED <<core, pl, seen, an, api, cj, cc, rt>>

NextRoles == GetRoles

SpecRoles == InitRoles /\ [][NextRoles]_vars

-----------------------------------------------------------------------------
(* The query and lead endpoints over the stored rows *)

QueryIds == {"q1", "q2"}

LeadIds == {"l1", "l2"}

NotFoundQuery == "Query not found or unauthorized"

NotFoundLead == "Lead not found or unauthorized"

\* a Query row and a Lead row, with the columns the endpoints touch
QueryRow(id, user_id) ==
    [id |-> id, user_id |-> user_id, is_paused |-> FALSE,
     check_frequency_hours |-> CheckFrequencyHours]

LeadRow(id, query_id) == [id |-> id, query_id |-> query_id, is_checked |-> FALSE]

\* the filter on Query.id alone
OwnQuery_AnyUser(db, user, id) == {q \in db.queries : q.id = id}

\* filter(Query.id == query_id, Query.user_id == current_user.id)
OwnQuery(db, user, id) == {q \in db.queries : q.id = id /\ q.user_id = user}

\* query(Lead).join(Query).filter(Lead.id == lead_id,
\*                                Query.user_id == current_user.id)
OwnLead(db, user, id) ==
    {l \in db.leads :
        /\ l.id = id
        /\ \E q \in db.queries : q.id = l.query_id /\ q.user_id = user}

\* an update: the fields that are not None, and their values
UpdateData ==
    [given : SUBSET {"is_paused", "check_frequency_hours"},
     is_paused : {TRUE}, check_frequency_hours : {12}]

LeadUpdateData == [given : SUBSET {"is_checked"}, is_checked : {TRUE}]

\* what str() of the HTTPException gives, by the framework's version
HandlerDetails(detail) == {"", "404: " \o detail}

\* the request is answered: status code, detail, the rows returned and
\* the rows stored after it
Respond(user, op, target, code, detail, rows, db) ==
    rt' = [status |-> "answered", db |-> db, before |-> rt.db,
           last |-> [user |-> user, op |-> op, target |-> target, code |-> code,
                     detail |-> detail, rows |-> rows]]

InitTables ==
    /\ IdleFinder
    /\ an = NoAnalysis
    /\ cj = NoCleaning
    /\ cc = NoRace
    /\ dm = NoRoles
    /\ \E owner \in [QueryIds -> ApiUsers], of \in [LeadIds -> QueryIds] :
          rt = [NoTables EXCEPT
                  !.status = "open",
                  !.db = [queries |-> {QueryRow(id, owner[id]) : id \in QueryIds},
                          leads |-> {LeadRow(id, of[id]) : id \in LeadIds}]]

TablesFrame == UNCHANGED <<core, pl, seen, an, api, cj, cc, dm>>

\* GET /queries/ of the router and GET /queries of main
get_queries ==
    /\ rt.status /= "idle"
    /\ \E user \in ApiUsers :
          Respond(user, "get_queries", "", 200, "",
                  {q \in rt.db.queries : q.user_id = user}, rt.db)
    /\ TablesFrame

\* GET /queries/{query_id}/leads: the 404 is raised inside the try and
\* caught by the handler, which raises 500 with str(e)
get_leads_for_query ==
    /\ rt.status /= "idle"
    /\ \E user \in ApiUsers, query_id \in QueryIds :
          IF OwnQuery(rt.db, user, query_id) = {}
          THEN \E detail \in HandlerDetails(NotFoundQuery) :
                  Respond(user, "get_leads_for_query", query_id, 500, detail, {}, rt.db)
          ELSE Respond(user, "get_leads_for_query", query_id, 200, "",
                       {l \in rt.db.leads : l.query_id = query_id}, rt.db)
    /\ TablesFrame

\* the row with the fields of the update that are given
Updated(query, data) ==
    [query EXCEPT
        !.is_paused = IF "is_paused" \in data.given THEN data.is_paused ELSE @,
        !.check_frequency_hours =
            IF "check_frequency_hours" \in data.given
            THEN data.check_frequency_hours ELSE @]

\* PATCH /queries/{query_id} of main and PUT /queries/{query_id} of the
\* router, which differ in the detail of the 404
update_query ==
    /\ rt.status /= "idle"
    /\ \E user \in ApiUsers, query_id \in QueryIds, data \in UpdateData,
          detail \in {NotFoundQuery, "Query not found"} :
          LET found == OwnQuery(rt.db, user, query_id)
          IN IF found = {}
             THEN Respond(user, "update_query", query_id, 404, detail, {}, rt.db)
             ELSE LET query == CHOOSE q \in found : TRUE
                  IN Respond(user, "update_query", query_id, 200, "",
                             {Updated(query, data)},
                             [rt.db EXCEPT !.queries =
                                 (@ \ {query}) \cup {Updated(query, data)}])
    /\ TablesFrame

\* DELETE /queries/{query_id} of the router, registered first: the row is
\* deleted through the session, and its leads with it
delete_query ==
    /\ rt.status /= "idle"
    /\ \E user \in ApiUsers, query_id \in QueryIds :
          LET found == OwnQuery(rt.db, user, query_id)
          IN IF found = {}
             THEN Respond(user, "delete_query", query_id, 404, "Query not found", {}, rt.db)
             ELSE Respond(user, "delete_query", query_id, 204, "", {},
                          [queries |-> rt.db.queries \ found,
                           leads |-> {l \in rt.db.leads : l.query_id /= query_id}])
    /\ TablesFrame

\* DELETE /queries/{query_id} of main: a bulk delete, which the foreign key
\* of a lead of the query refuses
delete_query_bulk ==
    /\ rt.status /= "idle"
    /\ \E user \in ApiUsers, query_id \in QueryIds :
          LET found == OwnQuery(rt.db, user, query_id)
          IN IF found = {}
             THEN Respond(user, "delete_query", query_id, 404, NotFoundQuery, {}, rt.db)
             ELSE IF \E l \in rt.db.leads : l.query_id = query_id
             THEN Respond(user, "delete_query", query_id, 500, "", {}, rt.db)
             ELSE Respond(user, "delete_query", query_id, 204, "", {},
                          [rt.db EXCEPT !.queries = @ \ found])
    /\ TablesFrame

\* GET /leads/{lead_id}
get_lead ==
    /\ rt.status /= "idle"
    /\ \E user \in ApiUsers, lead_id \in LeadIds :
          LET found == OwnLead(rt.db, user, lead_id)
          IN IF found = {}
             THEN Respond(user, "get_lead", lead_id, 404, NotFoundLead, {}, rt.db)
             ELSE Respond(user, "get_lead", lead_id, 200, "", found, rt.db)
    /\ TablesFrame

\* PATCH /leads/{lead_id}; notes is no column of Lead and is not stored
update_lead ==
    /\ rt.status /= "idle"
    /\ \E user \in ApiUsers, lead_id \in LeadIds, data \in LeadUpdateData :
          LET found == OwnLead(rt.db, user, lead_id)
          IN IF found = {}
             THEN Respond(user, "update_lead", lead_id, 404, NotFoundLead, {}, rt.db)
             ELSE LET lead == CHOOSE l \in found : TRUE
                      after == [lead EXCEPT !.is_checked =
                                   IF "is_checked" \in data.given
                                   THEN data.is_checked ELSE @]
                  IN Respond(user, "update_lead", lead_id, 200, "", {after},
                             [rt.db EXCEPT !.leads = (@ \ {lead}) \cup {after}])
    /\ TablesFrame

\* DELETE /leads/{lead_id}: Query.delete() after join() raises
\* InvalidRequestError before any statement is sent
delete_lead ==
    /\ rt.status /= "idle"
    /\ \E user \in ApiUsers, lead_id \in LeadIds :
          Respond(user, "delete_lead", lead_id, 500, "", {}, rt.db)
    /\ TablesFrame

NextTables ==
    \/ get_queries
    \/ get_leads_for_query
    \/ update_query
    \/ delete_query
    \/ delete_query_bulk
    \/ get_lead
    \/ update_lead
    \/ delete_lead

SpecTables == InitTables /\ [][NextTables]_vars

\* the rows of db that belong to user: the queries with that user_id and
\* the leads of those queries
RowsOf(db, user) ==
    {q \in db.queries : q.user_id = user}
        \cup {l \in db.leads :
                 \E q \in db.queries : q.id = l.query_id /\ q.user_id = user}

AllRows(db) == db.queries \cup db.leads

-----------------------------------------------------------------------------
(* Two calls of find_intent_signals in flight on one instance *)

Callers == {"c1", "c2"}

\* the local variables of a call: where it is suspended, its argument,
\* its signals_data, the recency filter and the user_input it handed to
\* search_pages and analyze_intent_signals, and the pages it got
NoFrame ==
    [pc |-> "none", arg |-> "", signals_data |-> NoPlan, tbs |-> "",
     used |-> "", found |-> FALSE]

\* the plan the planner gives for input u
PlanFor(u) ==
    [present |-> TRUE, keys |-> RequiredKeys,
     search_queries |-> <<Rec(IF u = "i1" THEN "qA" ELSE "qB")>>]

\* the other variables of the instance's single call stay as they are
RaceFrame ==
    UNCHANGED <<pc, arg, signals_data, sp, pages, contacts, result, ext, hist,
                pl, seen, an, api, cj, dm, rt>>

InitRace ==
    /\ IdleFinder
    /\ an = NoAnalysis
    /\ cj = NoCleaning
    /\ dm = NoRoles
    /\ rt = NoTables
    /\ cc = [status |-> "open", calls |-> [c \in Callers |-> NoFrame]]

\* a call with a user_input no other call has: it stores the input and
\* is suspended at the planner's model call
RaceCall ==
    /\ \E c \in Callers, u \in UserInputs :
          /\ cc.calls[c].pc = "none"
          /\ \A d \in Callers : cc.calls[d].arg /= u
          /\ user_input' = u
          /\ cc' = [cc EXCEPT !.calls[c] = [NoFrame EXCEPT !.pc = "planning", !.arg = u]]
    /\ UNCHANGED signals_to_track
    /\ RaceFrame

\* the planner answers: the call raises, or picks the recency filter by
\* self.user_input and is suspended in search_pages
RacePlanned ==
    /\ \E c \in Callers, ok \in BOOLEAN :
          /\ cc.calls[c].pc = "planning"
          /\ cc' = [cc EXCEPT !.calls[c] =
                       IF ok
                       THEN [@ EXCEPT !.pc = "searching",
                                      !.signals_data = PlanFor(cc.calls[c].arg),
                                      !.tbs = RecencyFilter]
                       ELSE [@ EXCEPT !.pc = "raised"]]
    /\ UNCHANGED <<user_input, signals_to_track>>
    /\ RaceFrame

\* search_pages returns: the call hands self.user_input to
\* analyze_intent_signals and is suspended in it
RaceSearched ==
    /\ \E c \in Callers :
          /\ cc.calls[c].pc = "searching"
          /\ cc' = [cc EXCEPT !.calls[c] =
                       [@ EXCEPT !.pc = "analyzing", !.used = user_input]]
    /\ UNCHANGED <<user_input, signals_to_track>>
    /\ RaceFrame

\* the analysis returns, with contacts of the query's page or none: the
\* call stores its narrowed plan and returns
RaceAnalyzed ==
    /\ \E c \in Callers, found \in BOOLEAN :
          /\ cc.calls[c].pc = "analyzing"
          /\ signals_to_track' =
                 FilteredSignals(cc.calls[c].signals_data,
                                 IF found
                                 THEN <<cc.calls[c].signals_data.search_queries[1].query>>
                                 ELSE <<>>)
          /\ cc' = [cc EXCEPT !.calls[c] =
                       [@ EXCEPT !.pc = "returned", !.found = found]]
    /\ UNCHANGED user_input
    /\ RaceFrame

NextRace == RaceCall \/ RacePlanned \/ RaceSearched \/ RaceAnalyzed

SpecRace == InitRace /\ [][NextRace]_vars

-----------------------------------------------------------------------------
(* Properties of the run tracker (checked under Spec) *)

QueryTextsOf(queries) == [k \in 1..Len(queries) |-> QueryOf(queries[k])]

ContactUrls == {contacts[k].url : k \in DOMAIN contacts}

\* new holds no more queries than old, and only texts of old
Narrowed(old, new) ==
    /\ Len(new.search_queries) <= Len(old.search_queries)
    /\ \A k \in DOMAIN new.search_queries :
          \E j \in DOMAIN old.search_queries :
             QueryOf(new.search_queries[k]) = QueryOf(old.search_queries[j])

\* C1: a call without user_input that runs on a tracked plan does not call
\* the planner, and once its search_pages has finished the query texts sent
\* to the search API are exactly the first two entries of the stored plan.
C1_RepeatSendsStoredQueries ==
    (hist.branch = "tracked" /\ sp.status \in {"returned", "raised"}) =>
        /\ ext.planner = 0
        /\ sp.requests = QueryTextsOf(Issued(hist.startPlan.search_queries))

\* C2: after a run that returns, the text of a query of the plan is in
\* successful_queries exactly when a page fetched from that query's own
\* results has the url of some contact.
C2_SuccessfulIffOwnPage ==
    result.status = "returned" =>
        \A i \in DOMAIN signals_data.search_queries :
            HasQuery(signals_data.search_queries[i]) =>
                ((QueryOf(signals_data.search_queries[i])
                      \in Range(result.successful_queries))
                 <=> \E k \in DOMAIN pages :
                        sp.origin[k].q = i /\ pages[k].url \in ContactUrls)

\* C3: a repeat run (no user_input, tracked plan) passes search_pages a
\* recency filter other than the 'qdr:m3' of fresh runs.
C3_RepeatUsesOtherFilter ==
    (hist.branch = "tracked" /\ sp.status /= "idle") => sp.tbs /= TbsFresh

\* C4: during and after a repeat run, returned or raised, the stored list
\* is no longer than the list stored when the run began and holds only
\* query texts of that list.
C4_NarrowingMonotone ==
    hist.kind = "repeat" => Narrowed(hist.startPlan, signals_to_track)

C4_Witness ==
    /\ hist.branch = "tracked"
    /\ result.status = "raised"
    /\ Len(hist.startPlan.search_queries) > 0

\* C5: a call with user_input calls the planner, and no call without
\* user_input ever runs on a plan that was stored before an earlier call
\* with user_input was made.
C5_FreshCallDiscardsPlan ==
    /\ hist.kind = "fresh" => ext.planner = 1
    /\ ~hist.onStale

\* C6: a call without user_input on an instance on which no run has yet
\* returned raises ValueError at once: no planner, search, page-fetch or
\* model call is made and signals_to_track stays empty.
C6_RepeatWithoutPlanRaises ==
    (hist.kind = "repeat" /\ ~hist.everReturned) =>
        /\ pc = "idle"
        /\ result = Raised("ValueError")
        /\ ext = NoCalls
        /\ sp = IdleFrame
        /\ ~signals_to_track.present

\* the precondition error after an earlier fresh run that failed
C6_Witness ==
    /\ hist.kind = "repeat"
    /\ ~hist.everReturned
    /\ Truthy(user_input)
    /\ result.error = "ValueError"

\* C7: signals_to_track is empty exactly as long as no call has returned
\* normally, and once a plan is stored no step empties it again.
C7_FreshUntilFirstReturn ==
    /\ [](signals_to_track.present <=> hist.everReturned)
    /\ [][signals_to_track.present => signals_to_track'.present]_vars

\* a tracked instance on which a later call has raised
C7_Witness ==
    /\ signals_to_track.present
    /\ result.status = "raised"

-----------------------------------------------------------------------------
(* Properties of search_pages (checked under SpecSearch) *)

\* C8: search_pages does not raise, whatever the shape of its queries and
\* the outcome of the search and page-fetch calls.
C8_SearchPagesNeverRaises == sp.status /= "raised"

\* C9: one search_pages call issues at most 2 search requests, and they are
\* for the first queries of the list, in list order.
C9_QueryCap ==
    /\ Len(sp.requests) <= QueryCap
    /\ \A k \in DOMAIN sp.requests :
          k <= Len(sp.queries) /\ sp.requests[k] = QueryOf(sp.queries[k])
    /\ sp.status = "returned" =>
          Len(sp.requests) = Min(Len(sp.queries), QueryCap)

\* a list of more than two queries, of which two were issued
C9_Witness ==
    /\ sp.status = "returned"
    /\ Len(sp.queries) > QueryCap
    /\ Len(sp.requests) = QueryCap

\* C10: a stored page whose fetched text is longer than the cap holds the
\* first cap characters and the marker; a page whose text is not longer
\* than the cap is stored verbatim.
C10_ShortPagesVerbatim ==
    \A k \in DOMAIN sp.results :
        LET text == sp.origin[k].text
        IN sp.results[k].content =
              IF Len(text) > ContentCap
              THEN SubSeq(text, 1, ContentCap) \o Marker
              ELSE text

-----------------------------------------------------------------------------
(* Properties of the pipeline (checked under Spec) *)

\* C11: search_pages is never entered, and the call never returns, with a
\* plan whose search_queries list is empty.
C11_NonEmptyPlanOnly ==
    /\ sp.status /= "idle" => Len(sp.queries) > 0
    /\ result.status = "returned" => Len(signals_data.search_queries) > 0

\* C14: when the planner's model call raises, its text is not JSON or a
\* required key is missing, the call raises without any search, page fetch
\* or model call of the analysis, and signals_to_track is as it was before
\* the call.
C14_PlannerFailurePropagates ==
    (ext.planner = 1 /\ pc /= "planning" /\ ext.response /= "ok") =>
        /\ result = Raised("planner")
        /\ pc = "idle"
        /\ sp = IdleFrame
        /\ pages = <<>>
        /\ contacts = <<>>
        /\ ext.model = 0
        /\ signals_to_track = hist.startPlan

\* a planner failure on an instance that holds a plan
C14_Witness ==
    /\ result = Raised("planner")
    /\ ext.response = "missing"
    /\ hist.startPlan.present

\* C19: a call whose planning succeeded and that resolved no contact has
\* returned, with no contact and no successful query; it has not raised.
C19_EmptyRunReturns ==
    (hist.kind = "fresh" /\ ext.response = "ok" /\ pc = "idle"
            /\ contacts = <<>>) =>
        /\ result.status = "returned"
        /\ result.contacts = <<>>
        /\ result.successful_queries = <<>>

-----------------------------------------------------------------------------
(* Properties of search_pages (checked under SpecGateway) *)

\* C16: once the search API or a page fetch has failed, search_pages still
\* runs every iteration that follows and returns exactly the pages that
\* were fetched, in query-then-result order.
C16_PartialFailuresSkipped ==
    (SomeFailure(seen, sp.num_pages) /\ sp.status /= "running") =>
        /\ sp.status = "returned"
        /\ Len(seen) = Len(Issued(sp.queries))
        /\ sp.results = ExpectedPages(seen, sp.num_pages)

\* C29: in the pages one search_pages call returns, every url occurs once,
\* also when two queries give the same link.
C29_UrlsDistinct ==
    sp.status = "returned" =>
        \A j, k \in DOMAIN sp.results :
            sp.results[j].url = sp.results[k].url => j = k

\* whatever the answers, the pages gathered are those fetched from the
\* answers so far, and search_pages raises only for a query without 'query'
RaisesOnlyForMalformedQuery ==
    /\ sp.results = ExpectedPages(seen, sp.num_pages)
    /\ sp.status = "returned" => Len(seen) = Len(Issued(sp.queries))
    /\ sp.status = "raised" => ~HasQuery(Issued(sp.queries)[sp.i])

-----------------------------------------------------------------------------
(* Properties of analyze_intent_signals (checked under SpecAnalysis) *)

\* C17: a page whose model call raises, whose text is not JSON or whose
\* object has no intent_signals contributes no company and does not abort
\* the batch: the companies are the intent_signals of the other pages, in
\* page order, each of them is passed to contact resolution, and when
\* every page fails the call returns an empty list.
C17_FailedPagesContributeNothing ==
    an.status \in {"resolving", "returned", "raised"} =>
        /\ an.status /= "raised"
        /\ an.companies = SignalsOf(an.answers)
        /\ an.status = "returned" => Len(an.log) = Len(an.companies)
        /\ (\A k \in DOMAIN an.answers : an.answers[k].kind /= "ok") =>
               an.status = "returned" /\ an.all_contacts = <<>>

\* a page whose model call raised, then a page whose company has contacts
C17_Witness ==
    /\ an.status = "returned"
    /\ Len(an.pages) = 2
    /\ an.answers[1].kind = "exc"
    /\ an.answers[2].kind = "ok"
    /\ an.all_contacts /= <<>>

\* C18: a company whose contact resolution raises (no 'company' field, the
\* role lookup, the assembly of a contact) contributes no contact, every
\* other company contributes the contacts found for it, all companies are
\* resolved, and analyze_intent_signals does not raise.
C18_FailedCompanyContributesNothing ==
    an.status \in {"resolving", "returned", "raised"} =>
        /\ an.status /= "raised"
        /\ an.all_contacts = ContactsOf(an.companies, an.log)
        /\ an.status = "returned" => Len(an.log) = Len(an.companies)

\* the assembly of the first company's contact raised, and the second
\* company's contacts are returned
C18_Witness ==
    /\ an.status = "returned"
    /\ Len(an.companies) = 2
    /\ CompanyContacts(an.companies[1], an.log[1]).raised
    /\ an.log[1].roles = "one"
    /\ an.all_contacts /= <<>>

-----------------------------------------------------------------------------
(* Properties of find_company_contacts (checked under SpecContacts) *)

\* C20: for one company and one role, find_company_contacts gives at most
\* ProfileLimit contacts, whatever the profile search answers.
C20_AtMostLimitPerRole ==
    Len(an.all_contacts) <= ProfileLimit

-----------------------------------------------------------------------------
(* Properties of the endpoint (checked under SpecApi) *)

\* C12: a request that has been answered has committed exactly one Query
\* row (its user, its text, the run's successful_queries, not paused,
\* checked every 24 hours) and one Lead row for each contact of the run,
\* when the run returned and no insert failed; it has committed nothing
\* when the run raised or the database refused.
C12_PersistsAtomicallyOnce ==
    api.phase = "answered" =>
        /\ api.outcome = "committed" <=>
               (result.status = "returned" /\ api.fail = "none")
        /\ api.outcome = "failed" <=>
               (result.status = "raised" \/ api.fail /= "none")
        /\ api.outcome = "failed" => api.db = api.before
        /\ api.outcome = "committed" =>
               /\ Len(api.db.queries) = Len(api.before.queries) + 1
               /\ SubSeq(api.db.queries, 1, Len(api.before.queries)) = api.before.queries
               /\ LET q == api.db.queries[Len(api.db.queries)]
                  IN /\ q.user_id = api.user
                     /\ q.query_text = api.text
                     /\ q.signals_to_track = result.successful_queries
                     /\ q.is_paused = FALSE
                     /\ q.check_frequency_hours = 24
                     /\ \A k \in 1..Len(api.before.queries) :
                            api.before.queries[k].id /= q.id
                     /\ api.db.leads = api.before.leads \o
                            [k \in 1..Len(result.contacts) |->
                                [query_id |-> q.id,
                                 company_name |-> result.contacts[k].company,
                                 website |-> result.contacts[k].url,
                                 employee_name |-> result.contacts[k].name,
                                 employee_email |-> result.contacts[k].email,
                                 is_checked |-> FALSE]]

\* a second request committed, with two leads
C12_Witness ==
    /\ api.phase = "answered"
    /\ api.made = 2
    /\ api.outcome = "committed"
    /\ Len(api.before.queries) = 1
    /\ Len(result.contacts) = 2

\* C13: a request never runs on the plan and user_input that another
\* user's request left in the instance; a request with an empty text and
\* no plan of its own user is refused as on a new instance.
C13_OwnStateOnly ==
    /\ (api.phase /= "idle" /\ hist.branch = "tracked") => api.owner = api.user
    /\ (api.phase = "answered" /\ api.text = "" /\ api.owner /= api.user) =>
           (result = Raised("ValueError") /\ api.outcome = "failed")

-----------------------------------------------------------------------------
(* Properties of generate_intent_signals (checked under SpecPlanner) *)

\* C15: a plan that generate_intent_signals returns has exactly the five
\* required keys and no others, and a response missing a required key is
\* rejected.
C15_ExactlyRequiredKeys ==
    /\ pl.status = "returned" => pl.plan.keys = RequiredKeys
    /\ (pl.status \in {"returned", "raised"} /\ pl.response.kind = "json"
            /\ RequiredKeys \ pl.response.keys /= {}) => pl.status = "raised"

\* C15, amended: a plan that generate_intent_signals returns has all five
\* required keys (and maybe others), and a response missing a required key
\* is rejected.
C15_AllRequiredKeys ==
    /\ pl.status = "returned" => RequiredKeys \subseteq pl.plan.keys
    /\ (pl.status \in {"returned", "raised"} /\ pl.response.kind = "json"
            /\ RequiredKeys \ pl.response.keys /= {}) => pl.status = "raised"

\* a response with a sixth key, returned as the plan
C15_Witness ==
    /\ pl.status = "returned"
    /\ ExtraKey \in pl.plan.keys

-----------------------------------------------------------------------------
(* Properties of _clean_json_string (checked under SpecCleaning) *)

\* C21: for a JSON text in a fenced code block, with or without the tag,
\* _clean_json_string returns the text without the fence and the whitespace
\* around it, and for a plain JSON text it returns its input unchanged.
C21_FenceStripped ==
    cj.status \in {"returned", "raised"} =>
        /\ FencedJson(cj.input) =>
               (cj.status = "returned" /\ cj.output = <<"VALUE">>)
        /\ ValidJson(cj.input) =>
               (cj.status = "returned" /\ cj.output = cj.input)

\* the same for the texts of the test: a fence whose lines end with a
\* single line feed, and a plain JSON value
TestInputsCleaned ==
    (cj.status \in {"returned", "raised"}
        /\ Strip(cj.input) \in {<<"FENCE", "json", "LF", "VALUE", "LF", "FENCE">>,
                                 <<"FENCE", "LF", "VALUE", "LF", "FENCE">>,
                                 <<"VALUE">>}) =>
        (cj.status = "returned" /\ cj.output = <<"VALUE">>)

-----------------------------------------------------------------------------
(* Properties of the order of the stages (checked under Spec) *)

\* C22: a fresh call that has returned has called the planner once, with
\* its user_input, then search_pages once, then analyze_intent_signals
\* once, and has stored the tracked plan after that; while the call is in
\* flight the tracked plan is the one the call started with.
C22_StagesInOrder ==
    /\ (hist.kind = "fresh" /\ result.status = "returned") =>
           ext.trace = <<Stage("planner", arg), Stage("search_pages", ""),
                         Stage("analyze_intent_signals", ""), Stage("track", "")>>
    /\ pc \in {"planning", "searching", "analyze"} =>
           signals_to_track = hist.startPlan

\* a fresh call on an instance that holds another plan is in its analysis
C22_Witness ==
    /\ hist.kind = "fresh"
    /\ pc = "analyze"
    /\ hist.startPlan.present
    /\ signals_data /= hist.startPlan

\* C24: after any sequence of calls that returned or raised, an instance
\* that holds a tracked plan holds the user_input of the call that planned
\* that plan.
C24_InputOfStoredPlan ==
    (pc = "idle" /\ signals_to_track.present) => user_input = hist.planInput

-----------------------------------------------------------------------------
(* Properties of concurrent calls (checked under SpecRace) *)

\* C23: each of two calls with different user_input that interleave at
\* their suspension points hands its own user_input to
\* analyze_intent_signals.
C23_OwnInputAnalyzed ==
    cc.status = "open" =>
        \A c \in Callers :
            cc.calls[c].pc \in {"analyzing", "returned"} =>
                cc.calls[c].used = cc.calls[c].arg

-----------------------------------------------------------------------------
(* Properties of the contacts' email (checked under SpecApi) *)

-----------------------------------------------------------------------------
(* Properties of get_decision_makers (checked under SpecRoles) *)

\* C26: get_decision_makers never raises to its caller; it returns the first
\* element of the parsed array when that is non-empty, and the empty list
\* when the call fails, the response does not parse or the array is empty.
C26_OneRoleNeverRaises ==
    dm.status = "done" =>
        /\ ~dm.raised
        /\ Len(dm.roles) <= 1
        /\ LET c == SlicedContent(dm.answer.content)
           IN dm.roles =
                 IF dm.answer.kind = "content" /\ Len(c) = 1
                    /\ c[1] \in {"ARR1", "ARR2"}
                 THEN <<"CTO">> ELSE <<>>

\* a response with a choice gives the role or the empty list, not a raise
RolesWhenChoiceGiven ==
    (dm.status = "done" /\ dm.answer.kind /= "nochoices") =>
        /\ ~dm.raised
        /\ LET c == SlicedContent(dm.answer.content)
           IN dm.roles =
                 IF dm.answer.kind = "content" /\ Len(c) = 1
                    /\ c[1] \in {"ARR1", "ARR2"}
                 THEN <<"CTO">> ELSE <<>>

-----------------------------------------------------------------------------
(* Properties of the order of the analysis (checked under SpecAnalysis) *)

\* C25: no contact resolution starts before the task of every page has run,
\* and the companies are resolved one at a time, in the order of the pages
\* and of each page's intent_signals.
C25_PagesThenCompaniesInOrder ==
    LET page_events == SelectSeq(an.events, LAMBDA e : e.kind = "page")
        company_events == SelectSeq(an.events, LAMBDA e : e.kind = "company")
    IN /\ an.events = page_events \o company_events
       /\ company_events /= <<>> =>
              /\ Len(page_events) = Len(an.pages)
              /\ \A k \in DOMAIN page_events : page_events[k].index = k
       /\ Len(company_events) <= Len(SignalsOf(an.answers))
       /\ \A k \in DOMAIN company_events :
              /\ company_events[k].index = k
              /\ company_events[k].company = SignalsOf(an.answers)[k]

\* two pages with a company each, both resolved
C25_Witness ==
    /\ an.status = "returned"
    /\ Len(an.pages) = 2
    /\ Len(an.events) = 4
    /\ an.events[3].company.url /= an.events[4].company.url

-----------------------------------------------------------------------------
(* Properties of the query and lead endpoints (checked under SpecTables) *)

\* C27: a request returns only rows of the caller (queries with the
\* caller's user_id, leads of such queries), every row it changes or
\* deletes was a row of the caller, and a request that targets a row of
\* another user changes no stored row.
C27_OwnRowsOnly ==
    rt.status = "answered" =>
        LET own == RowsOf(rt.before, rt.last.user) \cup RowsOf(rt.db, rt.last.user)
        IN /\ rt.last.rows \subseteq own
           /\ (AllRows(rt.before) \ AllRows(rt.db)) \subseteq RowsOf(rt.before, rt.last.user)
           /\ (AllRows(rt.db) \ AllRows(rt.before)) \subseteq RowsOf(rt.db, rt.last.user)
           /\ (\E r \in AllRows(rt.before) \ RowsOf(rt.before, rt.last.user) :
                  r.id = rt.last.target) => rt.db = rt.before

\* a user's update of a lead is answered with the lead while another
\* user's rows are stored too
C27_Witness ==
    /\ rt.status = "answered"
    /\ rt.last.op = "update_lead"
    /\ rt.last.code = 200
    /\ rt.db /= rt.before
    /\ AllRows(rt.db) \ RowsOf(rt.db, rt.last.user) /= {}

\* C28: a request for the leads of a query that does not exist or is
\* another user's is answered 404 with 'Query not found or unauthorized'.
C28_ForeignQueryIs404 ==
    (/\ rt.status = "answered"
     /\ rt.last.op = "get_leads_for_query"
     /\ OwnQuery(rt.before, rt.last.user, rt.last.target) = {}) =>
        /\ rt.last.code = 404
        /\ rt.last.detail = NotFoundQuery

====
